---- MODULE Spec2Model ----
(***************************************************************************)
(* Model of src/territory.py: a mesa random-walk simulation in which       *)
(* agents of four kinds move on a toroidal MultiGrid and record the cells  *)
(* they reach in their own territory set and in the TerritoryManager's     *)
(* territory_map.                                                          *)
(***************************************************************************)
EXTENDS Integers, Sequences, FiniteSets, TLC

\* ------------------------------------------------------------------ bounds
grid_width == 4
grid_height == 2
MaxAgents == 2
MaxWarp == 1
SoloSteps == 3
DuoSteps == 1
DeepSteps == 6

\* --------------------------------------------------------------- constants
NormalAgent == "NormalAgent"
DoubleStepAgent == "DoubleStepAgent"
TerritoryExpanderAgent == "TerritoryExpanderAgent"
RandomTeleportAgent == "RandomTeleportAgent"
AgentTypes == {NormalAgent, DoubleStepAgent, TerritoryExpanderAgent, RandomTeleportAgent}

\* variant: a grid built with torus=False
torus_off == FALSE

\* MultiGrid(width, height, True): the third argument is the torus flag
torus == TRUE

VARIABLES
  pc,               \* position in the script: "warp", "agents", "run", "sched", "done"
  num_agents,       \* RandomWalkModel.num_agents
  num_warp_panels,  \* argument of initialize_warp_panels
  total_steps,      \* number of model.step() calls of the script
  warp_panels,      \* TerritoryManager.warp_panels
  territory_map,    \* TerritoryManager.territory_map: cell -> agent id
  last_claimant,    \* history: cell -> agent id of the latest add_to_territory call
  agent_type,       \* agent id -> class of the agent
  pos,              \* agent id -> agent.pos
  grid,             \* MultiGrid contents: cell -> set of agent ids
  territory,        \* agent id -> agent.territory
  move_counter,     \* agent id -> agent.move_counter (0 for NormalAgent)
  visited,          \* history: agent id -> cells the agent has been placed on or moved to
  datacollector,    \* sequence of collected records: agent id -> list(a.territory)
  steps,            \* schedule.steps
  agent_buffer      \* agents still to be activated in the current schedule.step()

vars == <<pc, num_agents, num_warp_panels, total_steps, warp_panels, territory_map,
          last_claimant, agent_type, pos, grid, territory, move_counter, visited,
          datacollector, steps, agent_buffer>>

Cells == (0..(grid_width - 1)) \X (0..(grid_height - 1))

Abs(n) == IF n < 0 THEN -n ELSE n

\* ------------------------------------------------------------------- Grid
\* mesa Grid.get_neighborhood(pos, moore, include_center=False), radius 1
get_neighborhood(p, moore) ==
  { c \in Cells :
      /\ c # p
      /\ \E dx \in -1..1, dy \in -1..1 :
           /\ moore \/ Abs(dx) + Abs(dy) <= 1
           /\ IF torus
                THEN c = <<(p[1] + dx) % grid_width, (p[2] + dy) % grid_height>>
                ELSE c = <<p[1] + dx, p[2] + dy>> }

\* MultiGrid.place_agent(agent, pos): the cell's content gains the agent
place_agent(g, a, p) == [g EXCEPT ![p] = @ \cup {a}]

\* MultiGrid.remove_agent(agent): the content of the agent's cell loses it
remove_agent(g, a, p) == [g EXCEPT ![p] = @ \ {a}]

\* variant: the agent is never removed from the cell it leaves
move_agent_keep(g, a, from, to) == place_agent(g, a, to)

\* MultiGrid.move_agent(agent, pos) = remove_agent then place_agent
move_agent(g, a, from, to) == place_agent(remove_agent(g, a, from), a, to)

\* ------------------------------------------------------- TerritoryManager
\* variant: a cell that already has an owner keeps it
add_to_territory_first(tm, p, agent_id) ==
  [c \in (DOMAIN tm) \cup {p} |-> IF c \in DOMAIN tm THEN tm[c] ELSE agent_id]

\* TerritoryManager.add_to_territory
add_to_territory(tm, p, agent_id) ==
  [c \in (DOMAIN tm) \cup {p} |-> IF c = p THEN agent_id ELSE tm[c]]

is_warp_panel(p) == p \in warp_panels

\* successive add_to_territory calls for the cells of S by the same agent
RECURSIVE add_all(_, _, _)
add_all(tm, S, agent_id) ==
  IF S = {} THEN tm
  ELSE LET p == CHOOSE q \in S : TRUE
       IN add_all(add_to_territory(tm, p, agent_id), S \ {p}, agent_id)

\* the history of add_to_territory calls: who asked last for each cell
note_claims(lc, S, agent_id) ==
  [c \in (DOMAIN lc) \cup S |-> IF c \in S THEN agent_id ELSE lc[c]]

\* variant: the territory is replaced by the cells of this turn
territory_replace(t, a, S) == [t EXCEPT ![a] = S]

\* agent.territory.add(p) for every p of S
territory_add(t, a, S) == [t EXCEPT ![a] = @ \cup S]

Created == DOMAIN agent_type

\* ------------------------------------------------------------------- Init
Configs == {<<1, SoloSteps>>} \cup { <<n, DuoSteps>> : n \in 2..MaxAgents }

\* the state in which TerritoryManager.__init__ and the first lines of
\* RandomWalkModel.__init__ leave the model, before initialize_warp_panels
Blank ==
  /\ pc = "warp"
  /\ warp_panels = {}
  /\ territory_map = <<>>
  /\ last_claimant = <<>>
  /\ agent_type = <<>>
  /\ pos = <<>>
  /\ grid = [c \in Cells |-> {}]
  /\ territory = <<>>
  /\ move_counter = <<>>
  /\ visited = <<>>
  /\ datacollector = <<>>
  /\ steps = 0
  /\ agent_buffer = <<>>

Init ==
  /\ \E cfg \in Configs : num_agents = cfg[1] /\ total_steps = cfg[2]
  /\ num_warp_panels \in 0..MaxWarp
  /\ Blank

\* one agent, one step, and every number of warp panels up to one more than the
\* grid has cells
InitWarp ==
  /\ num_agents = 1
  /\ total_steps = 1
  /\ num_warp_panels \in 0..(Cardinality(Cells) + 1)
  /\ Blank

\* one agent, no warp panel, and a run long enough for every move_counter test
InitDeep ==
  /\ num_agents = 1
  /\ total_steps = DeepSteps
  /\ num_warp_panels = 0
  /\ Blank

\* ------------------------------------------------- construction of model
\* variant: the loop test written with <=
more_panels_le == Cardinality(warp_panels) <= num_warp_panels

\* "while len(self.warp_panels) < num_panels"
more_panels == Cardinality(warp_panels) < num_warp_panels

\* the iteration of the while loop in which randrange gives x and y
draw_panel(x, y) ==
  /\ pc = "warp"
  /\ more_panels
  /\ warp_panels' = warp_panels \cup {<<x, y>>}
  /\ UNCHANGED <<pc, num_agents, num_warp_panels, total_steps, territory_map,
                 last_claimant, agent_type, pos, grid, territory, move_counter,
                 visited, datacollector, steps, agent_buffer>>

\* one iteration of the while loop of initialize_warp_panels
initialize_warp_panels ==
  \E x \in 0..(grid_width - 1), y \in 0..(grid_height - 1) : draw_panel(x, y)

\* the while loop of initialize_warp_panels ends
warp_panels_done ==
  /\ pc = "warp"
  /\ ~more_panels
  /\ pc' = "agents"
  /\ UNCHANGED <<num_agents, num_warp_panels, total_steps, warp_panels, territory_map,
                 last_claimant, agent_type, pos, grid, territory, move_counter,
                 visited, datacollector, steps, agent_buffer>>

Extend(f, k, v) == [j \in (DOMAIN f) \cup {k} |-> IF j = k THEN v ELSE f[j]]

\* one iteration of "for i in range(self.num_agents)" of RandomWalkModel.__init__
create_agent ==
  /\ pc = "agents"
  /\ LET i == Cardinality(Created) IN
     /\ i < num_agents
     /\ \E t \in AgentTypes, x \in 0..(grid_width - 1), y \in 0..(grid_height - 1) :
          /\ agent_type' = Extend(agent_type, i, t)
          /\ territory' = Extend(territory, i, {})
          /\ move_counter' = Extend(move_counter, i, 0)
          /\ pos' = Extend(pos, i, <<x, y>>)
          /\ grid' = place_agent(grid, i, <<x, y>>)
          /\ territory_map' = add_to_territory(territory_map, <<x, y>>, i)
          /\ last_claimant' = note_claims(last_claimant, {<<x, y>>}, i)
          /\ visited' = Extend(visited, i, {<<x, y>>})
  /\ UNCHANGED <<pc, num_agents, num_warp_panels, total_steps, warp_panels,
                 datacollector, steps, agent_buffer>>

\* the script's "for step in range(total_steps)": another model.step(), or the
\* final report, once s steps are done
after_step(s) == IF s < total_steps THEN "run" ELSE "done"

\* the for loop of RandomWalkModel.__init__ ends: the model is constructed
model_ready ==
  /\ pc = "agents"
  /\ Cardinality(Created) = num_agents
  /\ pc' = after_step(0)
  /\ UNCHANGED <<num_agents, num_warp_panels, total_steps, warp_panels, territory_map,
                 last_claimant, agent_type, pos, grid, territory, move_counter,
                 visited, datacollector, steps, agent_buffer>>

\* ------------------------------------------------------------ model.step
\* the orders random.shuffle can leave the agent keys in
Shuffles(S) ==
  { s \in [1..Cardinality(S) -> S] : \A j, k \in DOMAIN s : j # k => s[j] # s[k] }

\* variant: an order that may repeat an agent and leave another out
agent_buffer_any(S) == [1..Cardinality(S) -> S]

\* agent_buffer(shuffled=True) of RandomActivation
agent_buffer_of(S) == Shuffles(S)

\* DataCollector.collect: one more record, the Territory reporter of every agent
collect(dc, t) == Append(dc, t)

\* RandomWalkModel.step up to the first agent: datacollector.collect, then
\* schedule.step shuffles the agents
model_step ==
  /\ pc = "run"
  /\ datacollector' = collect(datacollector, territory)
  /\ agent_buffer' \in agent_buffer_of(Created)
  /\ pc' = "sched"
  /\ UNCHANGED <<num_agents, num_warp_panels, total_steps, warp_panels, territory_map,
                 last_claimant, agent_type, pos, grid, territory, move_counter,
                 visited, steps>>

\* what a turn of agent a does once its destination d and the cells S it
\* claims are known; the last turn of the buffer ends schedule.step
turn(a, d, S) ==
  /\ grid' = move_agent(grid, a, pos[a], d)
  /\ pos' = [pos EXCEPT ![a] = d]
  /\ visited' = [visited EXCEPT ![a] = @ \cup {d}]
  /\ territory' = territory_add(territory, a, S)
  /\ territory_map' = add_all(territory_map, S, a)
  /\ last_claimant' = note_claims(last_claimant, S, a)

\* the agent returns before moving
skip_turn ==
  UNCHANGED <<grid, pos, visited, territory, territory_map, last_claimant>>

\* bookkeeping of schedule.step around the turn of the first agent of the buffer
next_agent ==
  /\ agent_buffer' = Tail(agent_buffer)
  /\ steps' = IF Len(agent_buffer) = 1 THEN steps + 1 ELSE steps
  /\ pc' = IF Len(agent_buffer) = 1 THEN after_step(steps + 1) ELSE "sched"
  /\ UNCHANGED <<num_agents, num_warp_panels, total_steps, warp_panels, agent_type,
                 datacollector>>

\* variant: no is_warp_panel test before the claim
claim_always(d) == {d}

\* cells claimed when the agent ends on d: none on a warp panel
claim_of(d) == IF is_warp_panel(d) THEN {} ELSE {d}

\* the cells new_position can be when NormalAgent.random_move calls move_agent
\* from p
normal_destinations(p) == get_neighborhood(p, TRUE)

\* NormalAgent.random_move
NormalAgent_random_move ==
  /\ pc = "sched" /\ agent_buffer # <<>>
  /\ LET a == Head(agent_buffer) IN
     /\ agent_type[a] = NormalAgent
     /\ \E new_position \in normal_destinations(pos[a]) :
          turn(a, new_position, claim_of(new_position))
     /\ UNCHANGED move_counter
  /\ next_agent

\* variant: the intermediate cell of a double step is claimed too
double_claim_both(first, d) == claim_of(first) \cup claim_of(d)

\* cells claimed by a DoubleStepAgent that passes by first and ends on d
double_claim_of(first, d) == claim_of(d)

\* "if self.move_counter % 6 == 0: return" of DoubleStepAgent
momentum_skips(n) == n % 6 = 0

\* DoubleStepAgent.random_move
DoubleStepAgent_random_move ==
  /\ pc = "sched" /\ agent_buffer # <<>>
  /\ LET a == Head(agent_buffer) IN
     /\ agent_type[a] = DoubleStepAgent
     /\ move_counter' = [move_counter EXCEPT ![a] = @ + 1]
     /\ IF momentum_skips(move_counter[a] + 1)
          THEN skip_turn
          ELSE \E first \in get_neighborhood(pos[a], TRUE) :
                 \E new_position \in {first} \cup get_neighborhood(first, TRUE) :
                   turn(a, new_position, double_claim_of(first, new_position))
  /\ next_agent

\* variant: the neighbours are taken with moore=True
expander_claim_moore(d) ==
  IF d \in warp_panels THEN {} ELSE {d} \cup { c \in Cells : c # d /\ \E dx \in -1..1, dy \in -1..1 :
      c = <<(d[1] + dx) % grid_width, (d[2] + dy) % grid_height>> }

\* cells claimed by a TerritoryExpanderAgent that ends on d
expander_claim_of(d) ==
  IF is_warp_panel(d) THEN {} ELSE {d} \cup get_neighborhood(d, FALSE)

\* variant: the test written with % 4
expander_skips_4(n) == n % 4 = 0

\* "if self.move_counter % 3 == 0: return" of TerritoryExpanderAgent
expander_skips(n) == n % 3 = 0

\* TerritoryExpanderAgent.random_move
TerritoryExpanderAgent_random_move ==
  /\ pc = "sched" /\ agent_buffer # <<>>
  /\ LET a == Head(agent_buffer) IN
     /\ agent_type[a] = TerritoryExpanderAgent
     /\ move_counter' = [move_counter EXCEPT ![a] = @ + 1]
     /\ IF expander_skips(move_counter[a] + 1)
          THEN skip_turn
          ELSE \E new_position \in get_neighborhood(pos[a], TRUE) :
                 turn(a, new_position, expander_claim_of(new_position))
  /\ next_agent

\* variant: the position drawn on every 5th turn is the one used
teleport_destinations_used(p, n) ==
  IF n % 5 = 0 THEN Cells ELSE get_neighborhood(p, TRUE)

\* the cells new_position can be when RandomTeleportAgent.random_move calls
\* move_agent on its n-th turn from p: the cell drawn when n % 5 = 0 is
\* replaced by the choice among possible_steps
teleport_destinations(p, n) ==
  LET drawn == IF n % 5 = 0 THEN Cells ELSE {}
      possible_steps == get_neighborhood(p, TRUE)
  IN { new_position \in possible_steps : drawn = drawn }

\* RandomTeleportAgent.random_move: the position drawn on every 5th turn is
\* overwritten by the choice among the neighbours before it is used
RandomTeleportAgent_random_move ==
  /\ pc = "sched" /\ agent_buffer # <<>>
  /\ LET a == Head(agent_buffer) IN
     /\ agent_type[a] = RandomTeleportAgent
     /\ move_counter' = [move_counter EXCEPT ![a] = @ + 1]
     /\ \E new_position \in teleport_destinations(pos[a], move_counter[a] + 1) :
          turn(a, new_position, claim_of(new_position))
  /\ next_agent

Next ==
  \/ initialize_warp_panels
  \/ warp_panels_done
  \/ create_agent
  \/ model_ready
  \/ model_step
  \/ NormalAgent_random_move
  \/ DoubleStepAgent_random_move
  \/ TerritoryExpanderAgent_random_move
  \/ RandomTeleportAgent_random_move

Spec == Init /\ [][Next]_vars

\* randrange is fair: a cell that can still be added to warp_panels is drawn
\* sooner or later, and the loop of initialize_warp_panels ends once its test fails
FairDraws ==
  /\ \A x \in 0..(grid_width - 1), y \in 0..(grid_height - 1) : WF_vars(draw_panel(x, y))
  /\ WF_vars(warp_panels_done)

WarpSpec == InitWarp /\ [][Next]_vars /\ FairDraws

\* Next without the warp loop's iterations, which a model built with
\* num_warp_panels = 0 never runs
NextNoWarp ==
  \/ warp_panels_done
  \/ create_agent
  \/ model_ready
  \/ model_step
  \/ NormalAgent_random_move
  \/ DoubleStepAgent_random_move
  \/ TerritoryExpanderAgent_random_move
  \/ RandomTeleportAgent_random_move

DeepSpec == InitDeep /\ [][NextNoWarp]_vars

\* ------------------------------------------------------------- rendering
\* TerritoryManager.get_territory_grid: np.zeros, then one entry per owned cell
get_territory_grid(tm) ==
  LET zeros == [c \in Cells |-> 0]
  IN [c \in Cells |-> IF c \in DOMAIN tm THEN tm[c] ELSE zeros[c]]

\* ---------------------------------------------------------- final report
Max(S) == CHOOSE m \in S : \A n \in S : n <= m

\* top_100_agents: per AgentID, the maximum of the 'Territory Size' column, which
\* is len() of every collected Territory record
top_100_agents(a) ==
  Max({ Cardinality(datacollector[k][a]) : k \in 1..Len(datacollector) })

\* ================================================================ claims
\* the step creates or changes the territory_map entry of cell c
Written(c) ==
  /\ c \in DOMAIN territory_map'
  /\ c \notin DOMAIN territory_map \/ territory_map'[c] # territory_map[c]

\* distance between coordinates u and v on a ring of n positions
CycDist(u, v, n) ==
  IF (u - v) % n <= (v - u) % n THEN (u - v) % n ELSE (v - u) % n

\* the cells next to p when the grid edges are glued together
TorusNeighbours(p, moore) ==
  { c \in Cells :
      /\ c # p
      /\ CycDist(c[1], p[1], grid_width) <= 1
      /\ CycDist(c[2], p[2], grid_height) <= 1
      /\ ~moore => CycDist(c[1], p[1], grid_width) + CycDist(c[2], p[2], grid_height) = 1 }

\* the 4-connected neighbours of d that lie within the grid bounds, no wraparound
ClippedVonNeumann(d) ==
  { c \in Cells : Abs(c[1] - d[1]) + Abs(c[2] - d[2]) = 1 }

\* C1 (as stated): once the agents are placed, no step creates or changes the
\* territory_map entry of a warp panel, so a warp panel can be a key of
\* territory_map only as some agent's starting cell.
C1_NoWarpClaimAfterInit ==
  [][pc # "agents" => \A c \in warp_panels : ~Written(c)]_vars

\* C1 (amended): a step that creates or changes the territory_map entry of a warp
\* panel is either the placement of an agent, or the move of a
\* TerritoryExpanderAgent to a cell that is not a warp panel and has that panel
\* among its 4-connected neighbours; the destination of a move is never claimed
\* when it is a warp panel.
C1_WarpClaimOnlyInitOrExpanderNeighbour ==
  [][\A c \in warp_panels :
       Written(c) =>
         \/ pc = "agents"
         \/ \E a \in Created :
              /\ agent_type[a] = TerritoryExpanderAgent
              /\ territory_map'[c] = a
              /\ pos'[a] # pos[a]
              /\ pos'[a] \notin warp_panels
              /\ pos'[a] # c
              /\ c \in get_neighborhood(pos'[a], FALSE)]_vars

\* a warp panel is in an agent's territory, which only a move can add it to, and
\* the ledger names that agent as its owner
C1_Witness ==
  \E a \in Created : \E c \in warp_panels :
    c \in territory[a] /\ territory_map[c] = a

\* C2: territory_map holds, for exactly the cells some add_to_territory call was
\* made for, the agent of the latest call (last write wins, nothing is rejected).
C2_LastWriteWins ==
  /\ DOMAIN territory_map = DOMAIN last_claimant
  /\ \A c \in DOMAIN territory_map : territory_map[c] = last_claimant[c]

\* a cell an agent claimed by a move now has another owner
C2_Witness ==
  \E a \in Created : \E c \in territory[a] : territory_map[c] # a

\* C3: every agent is in the content of the cell of its pos and of no other cell,
\* and the grid holds nothing but the agents.
C3_GridMatchesPositions ==
  /\ \A a \in Created : \A c \in Cells : (a \in grid[c]) <=> (c = pos[a])
  /\ \A c \in Cells : grid[c] \subseteq Created

\* a TerritoryExpanderAgent has had its third, skipped, turn
C3_Witness ==
  \E a \in Created :
    /\ agent_type[a] = TerritoryExpanderAgent
    /\ move_counter[a] = 3
    /\ a \in grid[pos[a]]

\* C4: no step removes a cell from any agent's territory (so its size never
\* decreases), whoever owns the cell in territory_map.
C4_MonotonicGrowth ==
  [][\A a \in Created :
       /\ territory[a] \subseteq territory'[a]
       /\ Cardinality(territory[a]) <= Cardinality(territory'[a])]_vars

\* agent b has taken over in territory_map a cell that stays in a's territory
C4_Witness ==
  \E a \in Created, b \in Created :
    /\ a # b
    /\ \E c \in territory[a] : c \in territory[b] /\ territory_map[c] = b

C6_ClippedNeighbourhood ==
  \A a \in Created : \A moore \in BOOLEAN :
    \A c \in get_neighborhood(pos[a], moore) :
      /\ c \in Cells
      /\ c # pos[a]
      /\ Abs(c[1] - pos[a][1]) <= 1
      /\ Abs(c[2] - pos[a][2]) <= 1
      /\ ~moore => Abs(c[1] - pos[a][1]) + Abs(c[2] - pos[a][2]) = 1

\* C6 (amended): the neighbours of an agent's cell are exactly the other cells at
\* most 1 away from it in x and in y on the torus, i.e. modulo the width and the
\* height (1 away in exactly one of them for the 4-connected case): a cell on a
\* border has the cells across the edge among its neighbours.
C6_TorusNeighbourhood ==
  \A a \in Created : \A moore \in BOOLEAN :
    get_neighborhood(pos[a], moore) = TorusNeighbours(pos[a], moore)

\* a NormalAgent placed in column 0 is, after its first move, in the last column
C6_Witness ==
  \E a \in Created :
    /\ agent_type[a] = NormalAgent
    /\ grid_width >= 3
    /\ pos[a][1] = grid_width - 1
    /\ Cardinality(visited[a]) = 2
    /\ \E s \in visited[a] : s[1] = 0

\* C7: right after the construction of the model every agent's starting cell is
\* a key of territory_map, owned by the agent unless an agent created later
\* started on the same cell, and is in the agent's own territory.
C7_InitialClaim ==
  (pc = "run" /\ steps = 0 /\ datacollector = <<>>) =>
    \A a \in Created :
      /\ pos[a] \in DOMAIN territory_map
      /\ territory_map[pos[a]] = a \/ \E b \in Created : b > a /\ pos[b] = pos[a]
      /\ pos[a] \in territory[a]

\* a TerritoryExpanderAgent's turn that moved it
ExpanderMoved(a) ==
  /\ agent_type[a] = TerritoryExpanderAgent
  /\ move_counter'[a] # move_counter[a]
  /\ pos'[a] # pos[a]

\* the step adds the cells of S to a's territory, makes a their owner and changes
\* nothing else of the territories and of territory_map
ClaimedExactly(a, S) ==
  /\ territory'[a] = territory[a] \cup S
  /\ \A b \in Created \ {a} : territory'[b] = territory[b]
  /\ \A c \in S : c \in DOMAIN territory_map' /\ territory_map'[c] = a
  /\ \A c \in Cells \ S :
       /\ (c \in DOMAIN territory_map') <=> (c \in DOMAIN territory_map)
       /\ c \in DOMAIN territory_map => territory_map'[c] = territory_map[c]

\* C8 (as stated): a TerritoryExpanderAgent that moves to d claims exactly d and
\* the 4-connected neighbours of d within the grid bounds, and nothing when d is
\* a warp panel.
C8_ExpanderClaimsClipped ==
  [][\A a \in Created :
       ExpanderMoved(a) =>
         IF pos'[a] \in warp_panels
           THEN ClaimedExactly(a, {})
           ELSE ClaimedExactly(a, {pos'[a]} \cup ClippedVonNeumann(pos'[a]))]_vars

\* C8 (amended): a TerritoryExpanderAgent that moves to d claims exactly d and
\* the 4-connected neighbours of d on the torus, those across a grid edge
\* included, and nothing when d is a warp panel.
C8_ExpanderClaimsTorus ==
  [][\A a \in Created :
       ExpanderMoved(a) =>
         IF pos'[a] \in warp_panels
           THEN ClaimedExactly(a, {})
           ELSE ClaimedExactly(a, {pos'[a]} \cup TorusNeighbours(pos'[a], FALSE))]_vars

\* after its first turn a TerritoryExpanderAgent is in column 0, not on a warp
\* panel, and owns that cell and its neighbours, the one in the last column included
C8_Witness ==
  \E a \in Created :
    /\ agent_type[a] = TerritoryExpanderAgent
    /\ move_counter[a] = 1
    /\ pos[a] \notin warp_panels
    /\ pos[a][1] = 0
    /\ grid_width >= 3
    /\ <<grid_width - 1, pos[a][2]>> \in territory[a]
    /\ territory[a] = {pos[a]} \cup TorusNeighbours(pos[a], FALSE)
    /\ \A c \in territory[a] : territory_map[c] = a

\* C9: with one NormalAgent and no warp panel, after any number of steps the
\* agent's territory is the set of the cells it has been on (its starting cell and
\* the destinations of its moves), of size at least 1 and at most steps + 1.
C9_SoloTerritoryIsVisited ==
  (pc \in {"run", "done"} /\ num_agents = 1 /\ num_warp_panels = 0
     /\ agent_type[0] = NormalAgent) =>
    /\ territory[0] = visited[0]
    /\ Cardinality(territory[0]) >= 1
    /\ Cardinality(territory[0]) <= steps + 1

\* C10 (as stated): at the end of a run of at least one step the value the report
\* uses for an agent is the size of the agent's territory.
C10_ReportIsFinalSize ==
  (pc = "done" /\ total_steps >= 1) =>
    \A a \in Created : top_100_agents(a) = Cardinality(territory[a])

\* C10 (amended): at the end of a run of at least one step the value the report
\* uses for an agent is the size its territory had when the last step began, the
\* last of the total_steps records; the territory at the end of the run is at
\* least that large.
C10_ReportIsLastSnapshot ==
  (pc = "done" /\ total_steps >= 1) =>
    /\ Len(datacollector) = total_steps
    /\ \A a \in Created :
         /\ top_100_agents(a) = Cardinality(datacollector[total_steps][a])
         /\ top_100_agents(a) <= Cardinality(territory[a])

\* the run is over and an agent's territory is larger than the size reported
C10_Witness ==
  /\ pc = "done"
  /\ \E a \in Created :
       /\ 0 < top_100_agents(a)
       /\ top_100_agents(a) < Cardinality(territory[a])

\* C11: the grid get_territory_grid returns holds 0 exactly for the cells that are
\* no key of territory_map, and the owner's id for the others.
C11_SnapshotFaithful ==
  LET territory_grid == get_territory_grid(territory_map)
  IN \A c \in Cells :
       /\ (territory_grid[c] = 0) <=> (c \notin DOMAIN territory_map)
       /\ c \in DOMAIN territory_map => territory_grid[c] = territory_map[c]

\* C12: when at most all cells but one are asked for and the draws are fair, the
\* loop of initialize_warp_panels ends, with as many warp panels as asked for.
C12_WarpInitTerminates ==
  (num_warp_panels <= Cardinality(Cells) - 1) =>
    <>(pc = "agents" /\ Cardinality(warp_panels) = num_warp_panels)

\* the loop has ended with every cell but one a warp panel
C12_Witness ==
  /\ pc = "agents"
  /\ num_warp_panels = Cardinality(Cells) - 1
  /\ Cardinality(warp_panels) = Cardinality(Cells) - 1

\* C13: when more warp panels are asked for than the grid has cells, the
\* construction ends in an aborted state and no step of the simulation runs.
C13_AbortsOnTooManyPanels ==
  (num_warp_panels > Cardinality(Cells)) =>
    /\ <>(pc = "aborted")
    /\ [](pc \notin {"run", "sched", "done"})

\* C14: once initialize_warp_panels has returned, warp_panels holds exactly
\* num_warp_panels cells of the grid, and no later step changes it.
C14_WarpPanelsFixed ==
  [][pc' # "warp" =>
       /\ Cardinality(warp_panels') = num_warp_panels'
       /\ warp_panels' \subseteq Cells
       /\ pc # "warp" => warp_panels' = warp_panels]_vars

\* the run is over, with several warp panels and an agent on one of them
C14_Witness ==
  /\ pc = "done"
  /\ num_warp_panels >= 2
  /\ Cardinality(warp_panels) = num_warp_panels
  /\ \E a \in Created : pos[a] \in warp_panels /\ Cardinality(visited[a]) = 2

\* the step is the turn of agent a: a is the first of the agents still to act
Acting(a) ==
  /\ pc = "sched"
  /\ agent_buffer # <<>>
  /\ Head(agent_buffer) = a
  /\ agent_buffer' = Tail(agent_buffer)

\* the turn agent a is about to take is one on which its class returns at once
SkippedTurn(a) ==
  \/ agent_type[a] = DoubleStepAgent /\ (move_counter[a] + 1) % 6 = 0
  \/ agent_type[a] = TerritoryExpanderAgent /\ (move_counter[a] + 1) % 3 = 0

\* the cells one or two 8-connected steps away from p on the grid
TwoStepCells(p) ==
  TorusNeighbours(p, TRUE) \cup UNION { TorusNeighbours(q, TRUE) : q \in TorusNeighbours(p, TRUE) }

\* after the step agent a is in the content of cell d and of no other cell, and
\* no cell but the one it left and d has its content changed
MovedTo(a, d) ==
  /\ pos' = [pos EXCEPT ![a] = d]
  /\ \A c \in Cells : (a \in grid'[c]) <=> (c = d)
  /\ \A c \in Cells \ {pos[a], d} : grid'[c] = grid[c]
  /\ \A c \in Cells : grid'[c] \ {a} = grid[c] \ {a}

\* C16: a DoubleStepAgent's turn that brings its counter to a multiple of 6 and a
\* TerritoryExpanderAgent's turn that brings it to a multiple of 3 add 1 to the
\* counter and leave every position, the grid, every territory and territory_map
\* as they were; on any other turn of these classes the agent is moved: the
\* TerritoryExpanderAgent to a neighbouring cell, the DoubleStepAgent to a cell
\* one or two steps away, which it claims unless it is a warp panel.
C16_SkippedTurnsChangeOnlyCounter ==
  [][\A a \in Created :
       (Acting(a) /\ agent_type[a] \in {DoubleStepAgent, TerritoryExpanderAgent}) =>
         /\ move_counter' = [move_counter EXCEPT ![a] = @ + 1]
         /\ IF SkippedTurn(a)
              THEN /\ pos' = pos
                   /\ grid' = grid
                   /\ territory' = territory
                   /\ territory_map' = territory_map
              ELSE /\ MovedTo(a, pos'[a])
                   /\ agent_type[a] = TerritoryExpanderAgent =>
                        pos'[a] \in TorusNeighbours(pos[a], TRUE)
                   /\ agent_type[a] = DoubleStepAgent =>
                        /\ pos'[a] \in TwoStepCells(pos[a])
                        /\ pos'[a] \notin warp_panels =>
                             /\ pos'[a] \in territory'[a]
                             /\ territory_map'[pos'[a]] = a]_vars

\* a DoubleStepAgent has had its sixth, skipped, turn after five moves
C16_Witness ==
  \E a \in Created :
    /\ agent_type[a] = DoubleStepAgent
    /\ move_counter[a] = 6
    /\ steps = 6
    /\ Cardinality(visited[a]) >= 2

StandardTurn(a) ==
  \E d \in TorusNeighbours(pos[a], TRUE) :
    /\ MovedTo(a, d)
    /\ ClaimedExactly(a, IF d \in warp_panels THEN {} ELSE {d})

\* C18: on every turn, the fifth included, a RandomTeleportAgent can be moved to
\* exactly the cells a NormalAgent in its place can be moved to, all of them
\* 8-connected neighbours of its cell, and its turn has the effect of a
\* NormalAgent's turn on positions, grid, territories and territory_map.
C18_TeleporterActsAsStandard ==
  /\ [](\A a \in Created :
          agent_type[a] = RandomTeleportAgent =>
            /\ teleport_destinations(pos[a], move_counter[a] + 1) = normal_destinations(pos[a])
            /\ teleport_destinations(pos[a], move_counter[a] + 1) = TorusNeighbours(pos[a], TRUE))
  /\ [][\A a \in Created :
          (Acting(a) /\ agent_type[a] = RandomTeleportAgent) => StandardTurn(a)]_vars

\* a RandomTeleportAgent has had its fifth turn
C18_Witness ==
  \E a \in Created :
    /\ agent_type[a] = RandomTeleportAgent
    /\ move_counter[a] = 5
    /\ pos[a] \in territory[a]

\* C19: a turn that is not skipped and ends on a warp panel moves the agent there,
\* in pos and in the grid, and leaves every territory and territory_map as they were.
C19_WarpSuppressesOnlyTheClaim ==
  [][\A a \in Created :
       (Acting(a) /\ ~SkippedTurn(a) /\ pos'[a] \in warp_panels) =>
         /\ MovedTo(a, pos'[a])
         /\ territory' = territory
         /\ territory_map' = territory_map]_vars

\* after its first turn a TerritoryExpanderAgent is on a warp panel it did not
\* start on, with an empty territory, and the panel has no owner
C19_Witness ==
  \E a \in Created :
    /\ agent_type[a] = TerritoryExpanderAgent
    /\ move_counter[a] = 1
    /\ pos[a] \in warp_panels
    /\ Cardinality(visited[a]) = 2
    /\ territory[a] = {}
    /\ pos[a] \notin DOMAIN territory_map

\* C20: every cell of an agent's territory is a key of territory_map, and every
\* key of territory_map is in the territory of the agent it is mapped to.
C20_LedgerTerritoryCoherent ==
  /\ \A a \in Created : territory[a] \subseteq DOMAIN territory_map
  /\ \A c \in DOMAIN territory_map : c \in territory[territory_map[c]]

====
